---- MODULE Spec2Model ----
(***************************************************************************)
(* Model of post_process_findings.py: the checkpointed expansion loop that *)
(* splits hosts, decomposes areas through an LLM, geocodes every           *)
(* (host, area) pair, saves a checkpoint per finding and appends the       *)
(* expanded rows to the output JSONL file.                                 *)
(*                                                                         *)
(* Python values are modelled as tagged JSON values, dicts as sequences of *)
(* <<key, value>> pairs in insertion order, strings as sequences of        *)
(* one-character strings.  MD5 is taken to be collision-free: a digest is  *)
(* the number of the hashed text in a list of the texts that can be hashed.*)
(***************************************************************************)
EXTENDS Integers, Sequences, FiniteSets, TLC

\* ------------------------------------------------------------------ bounds
MaxRuns == 2
MaxFindings == 2
\* get_coordinates calls one process makes, and the resolution of the clock
MaxCalls == 2
TicksPerSecond == 2
\* key orders a line may come in, and the length of a host field
MaxShift == 2
MaxLen == 3
\* files in the input directory of an upstream stage
MaxPapers == 2

\* line 82: time.sleep(1)
RateLimitSeconds == 1

\* ------------------------------------------------------------ JSON values
JNull == [t |-> "null", v |-> 0]
JInt(n) == [t |-> "int", v |-> n]
JFloat(n) == [t |-> "float", v |-> n]
JStr(s) == [t |-> "str", v |-> s]

\* json.dumps, were it to write a float without its fractional part
JsonEncodeFloatAsInt(val) ==
  CASE val.t = "null" -> <<"null">>
    [] val.t = "int" -> <<"num", val.v>>
    [] val.t = "float" -> <<"num", val.v>>
    [] val.t = "str" -> <<"quoted", val.v>>

\* json.dumps of a scalar: the text it writes, as a token.
JsonEncode(val) ==
  CASE val.t = "null" -> <<"null">>
    [] val.t = "int" -> <<"num", val.v>>
    [] val.t = "float" -> <<"num", val.v, ".0">>
    [] val.t = "str" -> <<"quoted", val.v>>

\* json.loads of a scalar token.
JsonDecode(tok) ==
  CASE tok[1] = "null" -> JNull
    [] tok[1] = "num" /\ Len(tok) = 2 -> JInt(tok[2])
    [] tok[1] = "num" /\ Len(tok) = 3 -> JFloat(tok[2])
    [] tok[1] = "quoted" -> JStr(tok[2])

\* json.dumps / json.loads of a dict, keys kept in insertion order.
JsonEncodeDict(d) == [i \in DOMAIN d |-> <<d[i][1], JsonEncode(d[i][2])>>]
JsonDecodeDict(e) == [i \in DOMAIN e |-> <<e[i][1], JsonDecode(e[i][2])>>]
JsonEncodeList(l) == [i \in DOMAIN l |-> JsonEncodeDict(l[i])]
JsonDecodeList(l) == [i \in DOMAIN l |-> JsonDecodeDict(l[i])]

\* dict operations
Has(d, k) == \E i \in DOMAIN d : d[i][1] = k
Get(d, k) == d[CHOOSE i \in DOMAIN d : d[i][1] = k][2]

\* ------------------------------------------------------------ the findings
RequiredKeys ==
  <<"document_id", "parasite_species", "host_species", "country", "area",
    "confidence_score">>

\* sorted(keys), the order json.dumps(sort_keys=True) emits them in
KeyOrder ==
  <<"area", "confidence_score", "country", "document_id", "host_species",
    "parasite_species">>

\* two hosts, a composite area
FindingTwoHosts ==
  << <<"document_id", JInt(7)>>,
     <<"parasite_species", JStr(<<"P">>)>>,
     <<"host_species", JStr(<<"A", ",", " ", "B">>)>>,
     <<"country", JStr(<<"F">>)>>,
     <<"area", JStr(<<"X", "&", "Y">>)>>,
     <<"confidence_score", JStr(<<"H">>)>> >>

\* the same field values, read in another key order
FindingTwoHostsPermuted ==
  << <<"area", JStr(<<"X", "&", "Y">>)>>,
     <<"country", JStr(<<"F">>)>>,
     <<"document_id", JInt(7)>>,
     <<"host_species", JStr(<<"A", ",", " ", "B">>)>>,
     <<"confidence_score", JStr(<<"H">>)>>,
     <<"parasite_species", JStr(<<"P">>)>> >>

\* a host field made of delimiters and blanks only
FindingNoHost ==
  << <<"document_id", JInt(8)>>,
     <<"parasite_species", JStr(<<"Q">>)>>,
     <<"host_species", JStr(<<"/", " ">>)>>,
     <<"country", JStr(<<"E">>)>>,
     <<"area", JStr(<<"Z">>)>>,
     <<"confidence_score", JStr(<<"L">>)>> >>

\* one host, a plain area
FindingOneHost ==
  << <<"document_id", JInt(8)>>,
     <<"parasite_species", JStr(<<"Q">>)>>,
     <<"host_species", JStr(<<"A">>)>>,
     <<"country", JStr(<<"E">>)>>,
     <<"area", JStr(<<"Z">>)>>,
     <<"confidence_score", JStr(<<"L">>)>> >>

\* a record without its "area" field
FindingMalformed ==
  << <<"document_id", JInt(9)>>,
     <<"parasite_species", JStr(<<"Q">>)>>,
     <<"host_species", JStr(<<"A">>)>>,
     <<"country", JStr(<<"E">>)>>,
     <<"confidence_score", JStr(<<"L">>)>> >>

Findings ==
  {FindingTwoHosts, FindingTwoHostsPermuted, FindingNoHost, FindingOneHost,
   FindingMalformed}

\* the lines upstream may have written, in order
Catalogue ==
  <<FindingTwoHosts, FindingTwoHostsPermuted, FindingMalformed, FindingNoHost,
    FindingOneHost>>

\* the contents database/findings.jsonl may have: up to MaxFindings
\* consecutive lines of the catalogue
Slices ==
  {s \in (DOMAIN Catalogue) \X (1..MaxFindings) : s[1] + s[2] - 1 <= Len(Catalogue)}
Inputs == {SubSeq(Catalogue, s[1], s[1] + s[2] - 1) : s \in Slices}

\* A finding as json.loads builds it from a line whose keys come in another
\* order: the dict keeps the order of the line.
Reordered(finding, order) ==
  [i \in DOMAIN order |-> <<order[i], Get(finding, order[i])>>]
Rotation(keys, n) ==
  [i \in DOMAIN keys |-> keys[((i + n - 1) % Len(keys)) + 1]]
Reversed(keys) == [i \in DOMAIN keys |-> keys[Len(keys) + 1 - i]]
FieldOrders ==
  {Rotation(RequiredKeys, n) : n \in 0..MaxShift}
    \cup {Rotation(Reversed(RequiredKeys), n) : n \in 0..MaxShift}
\* the findings the digest is computed of, one function call at a time
HashArguments ==
  {Reordered(f, order) : f \in {FindingTwoHosts, FindingOneHost},
                         order \in FieldOrders}

\* ------------------------------------------------------- get_finding_hash
\* the text, were the keys left in the order of the dict
SortedItemsAsInserted(d, k) == SubSeq(JsonEncodeDict(d), k, Len(d))

RECURSIVE SortedItems(_, _)
SortedItems(d, k) ==
  IF k > Len(KeyOrder) THEN <<>>
  ELSE (IF Has(d, KeyOrder[k])
        THEN << <<KeyOrder[k], JsonEncode(Get(d, KeyOrder[k]))>> >>
        ELSE <<>>) \o SortedItems(d, k + 1)

\* hashlib.md5(...).hexdigest(), taken to be collision-free: the digest of a
\* text is its number in a fixed list of the texts that can be hashed
RECURSIVE ListOf(_)
ListOf(S) ==
  IF S = {} THEN <<>>
  ELSE LET x == CHOOSE y \in S : TRUE IN <<x>> \o ListOf(S \ {x})

HashedTexts ==
  ListOf({SortedItems(f, 1) : f \in Findings \cup HashArguments}
           \cup {JsonEncodeDict(f) : f \in Findings \cup HashArguments})

md5(text) == CHOOSE n \in DOMAIN HashedTexts : HashedTexts[n] = text

\* the digest, were json.dumps called without sort_keys
get_finding_hash_unsorted(finding) == md5(JsonEncodeDict(finding))

get_finding_hash(finding) == md5(SortedItems(finding, 1))

AllDigests == {get_finding_hash(f) : f \in Findings}

\* ----------------------------------------------------------- split_species
IsDelim(c) == c \in {",", "/"}
IsSpace(c) == c = " "

RECURSIVE re_split(_)
re_split(s) ==
  IF \A i \in DOMAIN s : ~IsDelim(s[i]) THEN <<s>>
  ELSE LET i == CHOOSE i \in DOMAIN s :
                  IsDelim(s[i]) /\ \A j \in 1..(i - 1) : ~IsDelim(s[j])
       IN <<SubSeq(s, 1, i - 1)>> \o re_split(SubSeq(s, i + 1, Len(s)))

RECURSIVE strip(_)
strip(s) ==
  IF s = <<>> THEN s
  ELSE IF IsSpace(s[1]) THEN strip(Tail(s))
  ELSE IF IsSpace(s[Len(s)]) THEN strip(SubSeq(s, 1, Len(s) - 1))
  ELSE s

NonEmptyStripped(pieces) ==
  LET stripped == [i \in DOMAIN pieces |-> strip(pieces[i])]
      kept == SelectSeq(stripped, LAMBDA p : p # <<>>)
  IN [i \in DOMAIN kept |-> JStr(kept[i])]

split_species(species_text) ==
  IF species_text.t = "null" \/ species_text.v = <<>> THEN <<>>
  ELSE NonEmptyStripped(re_split(species_text.v))

\* the list, were the fallback of lines 193-194 missing
HostListNoFallback(host_species) == split_species(host_species)

\* lines 192-194: the list the loop iterates over
HostList(host_species) ==
  IF split_species(host_species) = <<>> THEN <<host_species>>
  ELSE split_species(host_species)

\* ------------------------------------------------- extract_areas_with_llm
FragX == << <<"country", JStr(<<"F">>)>>, <<"area", JStr(<<"X">>)>> >>
FragY == << <<"country", JStr(<<"G">>)>>, <<"area", JStr(<<"Y">>)>> >>
\* an array element that is not a {country, area} object
FragNoArea == << <<"country", JStr(<<"F">>)>> >>

\* the arrays an answer may hold: empty, one fragment, two fragments (the
\* second in another country), and arrays with an element that is no fragment
LLMArrays ==
  {<<>>, <<FragX>>, <<FragX, FragY>>, <<FragNoArea>>, <<FragX, FragNoArea>>}

\* what client.chat.completions.create may do: raise, or answer with text
\* that holds no [...] span, a [...] span json.loads rejects, or a JSON array
LLMResponses ==
  {[kind |-> k, array |-> <<>>] : k \in {"raise", "noarray", "badjson"}}
    \cup {[kind |-> "array", array |-> a] : a \in LLMArrays}

\* the decomposer, were it to return what it parsed and nothing otherwise
extract_areas_no_fallback(country, area, response) == response.array

extract_areas_with_llm(country, area, response) ==
  IF response.kind = "array" THEN response.array
  ELSE << << <<"country", country>>, <<"area", area>> >> >>

\* --------------------------------------------------------- get_coordinates
NullCoordinates == << <<"latitude", JNull>>, <<"longitude", JNull>> >>

\* what requests.get may do: raise (network, timeout, HTTP status), return an
\* empty list, or a list whose first element has "lat" and "lon" strings
GeoResponses ==
  { [kind |-> "error", lat |-> <<"text">>, lon |-> <<"text">>],
    [kind |-> "empty", lat |-> <<"text">>, lon |-> <<"text">>],
    [kind |-> "results", lat |-> <<"num", 1>>, lon |-> <<"num", 2, ".0">>],
    [kind |-> "results", lat |-> <<"text">>, lon |-> <<"num", 2>>] }

\* float(str): raises ValueError unless the string is a number
FloatParses(tok) == tok[1] = "num"
PyFloat(tok) == JFloat(tok[2])

\* get_coordinates, were a failure reported as the point (0.0, 0.0)
get_coordinates_zero_on_failure(response) ==
  IF response.kind = "results" /\ FloatParses(response.lat) /\ FloatParses(response.lon)
  THEN << <<"latitude", PyFloat(response.lat)>>, <<"longitude", PyFloat(response.lon)>> >>
  ELSE << <<"latitude", JFloat(0)>>, <<"longitude", JFloat(0)>> >>

get_coordinates(response) ==
  IF response.kind = "results" /\ FloatParses(response.lat) /\ FloatParses(response.lon)
  THEN << <<"latitude", PyFloat(response.lat)>>, <<"longitude", PyFloat(response.lon)>> >>
  ELSE NullCoordinates

\* the assembled entry, were it to carry the country of the finding
ProcessedFindingRawCountry(finding, host, area_data, coords) ==
  << <<"document_id", Get(finding, "document_id")>>,
     <<"parasite_species", Get(finding, "parasite_species")>>,
     <<"host_species", host>>,
     <<"country", Get(finding, "country")>>,
     <<"area", Get(area_data, "area")>>,
     <<"latitude", Get(coords, "latitude")>>,
     <<"longitude", Get(coords, "longitude")>>,
     <<"confidence_score", Get(finding, "confidence_score")>> >>

\* the assembled entry, were it to carry the unsplit host field
ProcessedFindingUnsplitHost(finding, host, area_data, coords) ==
  << <<"document_id", Get(finding, "document_id")>>,
     <<"parasite_species", Get(finding, "parasite_species")>>,
     <<"host_species", Get(finding, "host_species")>>,
     <<"country", Get(area_data, "country")>>,
     <<"area", Get(area_data, "area")>>,
     <<"latitude", Get(coords, "latitude")>>,
     <<"longitude", Get(coords, "longitude")>>,
     <<"confidence_score", Get(finding, "confidence_score")>> >>

\* lines 209-218
ProcessedFinding(finding, host, area_data, coords) ==
  << <<"document_id", Get(finding, "document_id")>>,
     <<"parasite_species", Get(finding, "parasite_species")>>,
     <<"host_species", host>>,
     <<"country", Get(area_data, "country")>>,
     <<"area", Get(area_data, "area")>>,
     <<"latitude", Get(coords, "latitude")>>,
     <<"longitude", Get(coords, "longitude")>>,
     <<"confidence_score", Get(finding, "confidence_score")>> >>

\* --------------------------------------------------------- checkpoint files
NoFile == [state |-> "absent", text |-> <<>>]
\* opened with "w" (truncated) and not yet completely written and closed
TornFile == [state |-> "partial", text |-> <<>>]

\* the checkpoint file, were its text still unwritten when save returns
CheckpointFileUnflushed(original_finding, processed_results) == TornFile

\* lines 57-62: the JSON text of a completely written checkpoint
CheckpointFile(original_finding, processed_results) ==
  [state |-> "file",
   text |-> << <<"original", JsonEncodeDict(original_finding)>>,
               <<"processed", JsonEncodeList(processed_results)>> >>]

NoCheckpoint == [found |-> FALSE, original |-> <<>>, processed |-> <<>>]

\* the load, were it to look for the file under a path that never exists
load_checkpoint_wrong_path(store, finding_hash) == NoCheckpoint

\* the load, were the exception of json.load not caught and the unreadable
\* file taken for a checkpoint without entries
load_checkpoint_trusting(store, finding_hash) ==
  IF store[finding_hash].state = "file"
  THEN [found |-> TRUE,
        original |-> JsonDecodeDict(store[finding_hash].text[1][2]),
        processed |-> JsonDecodeList(store[finding_hash].text[2][2])]
  ELSE IF store[finding_hash].state = "partial"
  THEN [found |-> TRUE, original |-> <<>>, processed |-> <<>>]
  ELSE NoCheckpoint

\* lines 43-52: None unless the file exists and json.load accepts it
load_checkpoint(store, finding_hash) ==
  IF store[finding_hash].state = "file"
  THEN [found |-> TRUE,
        original |-> JsonDecodeDict(store[finding_hash].text[1][2]),
        processed |-> JsonDecodeList(store[finding_hash].text[2][2])]
  ELSE NoCheckpoint

\* ------------------------------------------------------------------- state
VARIABLES
  input,              \* database/findings.jsonl, as parsed at lines 156-159
  ckpt,               \* log/processed_findings/<digest>.json
  output,             \* database/post_process_findings.jsonl, one line each
  pc,                 \* where the process is
  run,                \* number of process starts so far
  idx,                \* loop index of line 169
  finding_hash,
  cached_results,     \* what load_checkpoint returned at line 174
  host_species_list,
  areas_data,
  hi, ai,             \* position of the two nested loops of lines 201-202
  new_processed,
  ap,                 \* position of the loop of line 228
  cache_hits, cache_misses, total_entries,
  exc,                \* the unhandled exception that ended the run, if any
  warned,             \* line 51: load_checkpoint printed its warning
  geo_returned,       \* what get_coordinates returned, call after call
  llm_response,       \* history: the last answer of the decomposition service
  llm_calls,          \* history: decomposition calls per digest, all runs
  pass_calls,         \* history: calls made for the finding being processed
  run_llm, run_geo,   \* history: calls per digest made by the current run
  saved_at_start,     \* history: digests with a loadable checkpoint at start
  produced,           \* history: the list in memory when a checkpoint was saved
  owner,              \* history: for each output line, the digest it is of
  saves,              \* history: completed saves per digest
  late_calls,         \* history: external calls for a digest already saved
  prev_end            \* history: how the run before the current one ended

\* the clock of the geocoding calls (get_coordinates, lines 79-113)
VARIABLES
  clk_pc,             \* where the process is with respect to get_coordinates
  clk_runs,           \* number of process starts so far
  clk_calls,          \* get_coordinates calls begun by the current process
  slept,              \* ticks spent so far in time.sleep(1), saturating
  since_sent,         \* ticks since the last request was sent, saturating
  last_gap            \* history: since_sent when the last request was sent

clock == <<clk_pc, clk_runs, clk_calls, slept, since_sent, last_gap>>

\* one call of a function of the script, on its own
VARIABLES
  fn_call,            \* the function and its arguments
  fn_ret              \* what it returned, once it has

functions == <<fn_call, fn_ret>>

\* an upstream stage: zai_batch_treatment.py or zai_llm_extraction.py
VARIABLES
  stage,              \* which of the two scripts
  st_pc,              \* where the process is
  st_runs,            \* number of process starts so far
  st_large,           \* the PDF files over the limits of line 29
  st_processed,       \* the set read from the usage log at the start
  st_todo,            \* what is left of os.listdir
  st_cur,             \* filename
  st_log,             \* the file names in the usage log
  st_out              \* the output file of each input file

stages ==
  <<stage, st_pc, st_runs, st_large, st_processed, st_todo, st_cur, st_log, st_out>>

\* what the expansion loop leaves alone
elsewhere == <<clock, functions, stages>>

vars ==
  <<input, ckpt, output, pc, run, idx, finding_hash, cached_results,
    host_species_list, areas_data, hi, ai, new_processed, ap, cache_hits,
    cache_misses, total_entries, exc, warned, geo_returned, llm_response,
    llm_calls, pass_calls, run_llm, run_geo, saved_at_start, produced, owner, saves, late_calls, prev_end>>

volatile ==
  <<finding_hash, cached_results, host_species_list, areas_data, hi, ai,
    new_processed, ap, llm_response, pass_calls, warned, geo_returned>>
counters == <<cache_hits, cache_misses, total_entries>>
files == <<input, ckpt, output, owner>>
history ==
  <<llm_calls, run_llm, run_geo, saved_at_start, produced, saves, late_calls,
    prev_end>>

NoResponse == [kind |-> "none", array |-> <<>>]
ZeroCalls == [d \in AllDigests |-> 0]
NoCalls == [llm |-> 0, geo |-> 0]

\* the loop before the first start of the script, whatever the input
LoopStart ==
  /\ ckpt = [d \in AllDigests |-> NoFile]
  /\ output = <<>>
  /\ pc = "idle"
  /\ run = 0
  /\ idx = 0
  /\ finding_hash = 0
  /\ cached_results = NoCheckpoint
  /\ host_species_list = <<>>
  /\ areas_data = <<>>
  /\ hi = 0
  /\ ai = 0
  /\ new_processed = <<>>
  /\ ap = 0
  /\ cache_hits = 0
  /\ cache_misses = 0
  /\ total_entries = 0
  /\ exc = "none"
  /\ warned = FALSE
  /\ geo_returned = <<>>
  /\ llm_response = NoResponse
  /\ llm_calls = ZeroCalls
  /\ pass_calls = NoCalls
  /\ run_llm = ZeroCalls
  /\ run_geo = ZeroCalls
  /\ saved_at_start = {}
  /\ produced = [d \in AllDigests |-> <<>>]
  /\ owner = <<>>
  /\ saves = ZeroCalls
  /\ late_calls = ZeroCalls
  /\ prev_end = "none"

\* the clock before the first start of the script
ClockStart ==
  /\ clk_pc = "off"
  /\ clk_runs = 0
  /\ clk_calls = 0
  /\ slept = 0
  /\ since_sent = -1
  /\ last_gap = -1

NoCall == [fn |-> "none", a |-> <<>>, b |-> <<>>, text |-> JNull]
NotReturned ==
  [returned |-> FALSE, digests |-> <<>>, pieces |-> <<>>, hosts |-> <<>>]

\* no function is called on its own
FunctionsIdle ==
  /\ fn_call = NoCall
  /\ fn_ret = NotReturned

Papers == 1..MaxPapers

\* the directories before a stage has run: no usage log, no output file
StagesStart ==
  /\ st_pc = "off"
  /\ st_runs = 0
  /\ st_processed = {}
  /\ st_todo = {}
  /\ st_cur = 0
  /\ st_log = {}
  /\ st_out = [f \in Papers |-> "absent"]

\* no upstream stage is looked at
StagesIdle ==
  /\ stage = "none"
  /\ st_large = {}
  /\ StagesStart

Init ==
  /\ input \in Inputs
  /\ LoopStart
  /\ ClockStart
  /\ FunctionsIdle
  /\ StagesIdle

Running == pc \in {"check", "llm", "geo", "save", "saving", "append"}

ClearVolatile ==
  /\ finding_hash' = 0
  /\ cached_results' = NoCheckpoint
  /\ host_species_list' = <<>>
  /\ areas_data' = <<>>
  /\ hi' = 0
  /\ ai' = 0
  /\ new_processed' = <<>>
  /\ ap' = 0
  /\ llm_response' = NoResponse
  /\ pass_calls' = NoCalls
  /\ warned' = FALSE
  /\ geo_returned' = <<>>

\* The script is started: module level up to line 167.
StartRun ==
  /\ ~Running
  /\ run < MaxRuns
  /\ run' = run + 1
  /\ pc' = "check"
  /\ idx' = 1
  /\ cache_hits' = 0
  /\ cache_misses' = 0
  /\ total_entries' = 0
  /\ exc' = "none"
  /\ ClearVolatile
  /\ run_llm' = ZeroCalls
  /\ run_geo' = ZeroCalls
  /\ saved_at_start' = {d \in AllDigests : ckpt[d].state = "file"}
  /\ prev_end' = IF run = 0 THEN "none" ELSE pc
  /\ UNCHANGED <<files, llm_calls, produced, saves, late_calls>>
  /\ UNCHANGED elsewhere

MissingKey(d, keys) == \E i \in DOMAIN keys : ~Has(d, keys[i])

\* the cache check, were a finding without a required field skipped with a
\* diagnostic and the loop continued with the next finding
CacheCheckSkipMalformed ==
  /\ pc = "check"
  /\ LET finding == input[idx]
         h == get_finding_hash(finding)
         loaded == load_checkpoint(ckpt, h)
     IN /\ finding_hash' = h
        /\ cached_results' = loaded
        /\ warned' = (ckpt[h].state = "partial")
        /\ IF loaded.found
           THEN /\ new_processed' = loaded.processed
                /\ cache_hits' = cache_hits + 1
                /\ ap' = 1
                /\ pc' = "append"
                /\ UNCHANGED <<cache_misses, host_species_list, exc,
                               total_entries, idx>>
           ELSE IF MissingKey(finding, RequiredKeys)
                THEN /\ pc' = IF idx = Len(input) THEN "done" ELSE "check"
                     /\ idx' = IF idx = Len(input) THEN idx ELSE idx + 1
                     /\ cache_misses' = cache_misses + 1
                     /\ UNCHANGED <<new_processed, host_species_list, ap, exc,
                                    cache_hits, total_entries>>
                ELSE /\ cache_misses' = cache_misses + 1
                     /\ host_species_list' = HostList(Get(finding, "host_species"))
                     /\ new_processed' = <<>>
                     /\ pc' = "llm"
                     /\ UNCHANGED <<cache_hits, total_entries, exc, ap, idx>>
  /\ UNCHANGED <<files, run, areas_data, hi, ai, llm_response, pass_calls,
                 geo_returned, history>>
  /\ UNCHANGED elsewhere

\* Lines 172-194: the cache check, and on a miss the field reads and the host
\* split.  A missing field raises KeyError, which nothing catches.
CacheCheck ==
  /\ pc = "check"
  /\ LET finding == input[idx]
         h == get_finding_hash(finding)
         loaded == load_checkpoint(ckpt, h)
     IN /\ finding_hash' = h
        /\ cached_results' = loaded
        /\ warned' = (ckpt[h].state = "partial")
        /\ IF loaded.found
           THEN /\ new_processed' = loaded.processed
                /\ cache_hits' = cache_hits + 1
                /\ ap' = 1
                /\ pc' = "append"
                /\ UNCHANGED <<cache_misses, host_species_list, exc,
                               total_entries>>
           ELSE IF MissingKey(finding, RequiredKeys)
                THEN /\ pc' = "halted"
                     /\ exc' = "KeyError:finding"
                     /\ cache_hits' = 0
                     /\ cache_misses' = 0
                     /\ total_entries' = 0
                     /\ UNCHANGED <<new_processed, host_species_list, ap>>
                ELSE /\ cache_misses' = cache_misses + 1
                     /\ host_species_list' = HostList(Get(finding, "host_species"))
                     /\ new_processed' = <<>>
                     /\ pc' = "llm"
                     /\ UNCHANGED <<cache_hits, total_entries, exc, ap>>
  /\ UNCHANGED <<files, run, idx, areas_data, hi, ai, llm_response, pass_calls,
                 geo_returned, history>>
  /\ UNCHANGED elsewhere

\* Line 197: the decomposition call and the parsing of its answer.
Decompose ==
  /\ pc = "llm"
  /\ \E response \in LLMResponses :
       /\ llm_response' = response
       /\ areas_data' = extract_areas_with_llm(Get(input[idx], "country"),
                                               Get(input[idx], "area"), response)
  /\ new_processed' = <<>>
  /\ hi' = 1
  /\ ai' = 1
  /\ pc' = IF areas_data' = <<>> THEN "save" ELSE "geo"
  /\ llm_calls' = [llm_calls EXCEPT ![finding_hash] = @ + 1]
  /\ run_llm' = [run_llm EXCEPT ![finding_hash] = @ + 1]
  /\ pass_calls' = [pass_calls EXCEPT !.llm = @ + 1]
  /\ late_calls' = [late_calls EXCEPT ![finding_hash] =
                      IF ckpt[finding_hash].state = "file" THEN @ + 1 ELSE @]
  /\ UNCHANGED <<files, run, idx, finding_hash, cached_results,
                 host_species_list, ap, counters, exc, warned, geo_returned,
                 run_geo, saved_at_start, produced, saves, prev_end>>
  /\ UNCHANGED elsewhere

\* Lines 203-220: one iteration of the inner loop, for the pair
\* (host_species_list[hi], areas_data[ai]).  Reading "country" or "area" from
\* an element that lacks it raises, and nothing catches it.
Geocode ==
  /\ pc = "geo"
  /\ LET area_data == areas_data[ai]
         last_area == ai = Len(areas_data)
         last_pair == last_area /\ hi = Len(host_species_list)
     IN IF MissingKey(area_data, <<"country", "area">>)
        THEN /\ pc' = "halted"
             /\ exc' = "KeyError:area_data"
             /\ cache_hits' = 0
             /\ cache_misses' = 0
             /\ total_entries' = 0
             /\ UNCHANGED <<new_processed, hi, ai, run_geo, pass_calls,
                            late_calls, geo_returned>>
        ELSE /\ \E response \in GeoResponses :
                  /\ geo_returned' = Append(geo_returned, get_coordinates(response))
                  /\ new_processed' =
                       Append(new_processed,
                              ProcessedFinding(input[idx], host_species_list[hi],
                                               area_data, get_coordinates(response)))
             /\ run_geo' = [run_geo EXCEPT ![finding_hash] = @ + 1]
             /\ pass_calls' = [pass_calls EXCEPT !.geo = @ + 1]
             /\ late_calls' = [late_calls EXCEPT ![finding_hash] =
                                 IF ckpt[finding_hash].state = "file" THEN @ + 1 ELSE @]
             /\ ai' = IF last_area THEN 1 ELSE ai + 1
             /\ hi' = IF last_area THEN hi + 1 ELSE hi
             /\ pc' = IF last_pair THEN "save" ELSE "geo"
             /\ UNCHANGED <<exc, counters>>
  /\ UNCHANGED <<files, run, idx, finding_hash, cached_results,
                 host_species_list, areas_data, ap, llm_response, llm_calls,
                 warned, run_llm, saved_at_start, produced, saves, prev_end>>
  /\ UNCHANGED elsewhere

\* the save, were all checkpoints kept in one file that it rewrites
SaveOpenSharedFile ==
  /\ pc = "save"
  /\ ckpt' = [d \in AllDigests |-> TornFile]
  /\ pc' = "saving"
  /\ UNCHANGED <<input, output, owner, run, idx, volatile, counters, exc,
                 history>>
  /\ UNCHANGED elsewhere

\* Line 61: open(checkpoint_file, "w") creates or truncates the file.
SaveOpen ==
  /\ pc = "save"
  /\ ckpt' = [ckpt EXCEPT ![finding_hash] = TornFile]
  /\ pc' = "saving"
  /\ UNCHANGED <<input, output, owner, run, idx, volatile, counters, exc,
                 history>>
  /\ UNCHANGED elsewhere

\* the save, were the checkpoints a finding of the same document already
\* has brought up to date as well
SaveDumpUpdatingDocument ==
  /\ pc = "saving"
  /\ ckpt' = [d \in AllDigests |->
               IF d = finding_hash
                  \/ (ckpt[d].state = "file"
                       /\ Get(load_checkpoint(ckpt, d).original, "document_id")
                            = Get(input[idx], "document_id"))
               THEN CheckpointFile(input[idx], new_processed)
               ELSE ckpt[d]]
  /\ produced' = [produced EXCEPT ![finding_hash] = new_processed]
  /\ saves' = [saves EXCEPT ![finding_hash] = @ + 1]
  /\ ap' = 1
  /\ pc' = "append"
  /\ UNCHANGED <<input, output, owner, run, idx, finding_hash,
                 cached_results, host_species_list, areas_data, hi, ai,
                 new_processed, llm_response, pass_calls, counters, exc,
                 warned, geo_returned, llm_calls, run_llm, run_geo,
                 saved_at_start, late_calls, prev_end>>
  /\ UNCHANGED elsewhere

\* Line 62 and the end of the with block: the JSON text is written and the
\* file closed.
SaveDump ==
  /\ pc = "saving"
  /\ ckpt' = [ckpt EXCEPT ![finding_hash] = CheckpointFile(input[idx], new_processed)]
  /\ produced' = [produced EXCEPT ![finding_hash] = new_processed]
  /\ saves' = [saves EXCEPT ![finding_hash] = @ + 1]
  /\ ap' = 1
  /\ pc' = "append"
  /\ UNCHANGED <<input, output, owner, run, idx, finding_hash,
                 cached_results, host_species_list, areas_data, hi, ai,
                 new_processed, llm_response, pass_calls, counters, exc,
                 warned, geo_returned, llm_calls, run_llm, run_geo,
                 saved_at_start, late_calls, prev_end>>
  /\ UNCHANGED elsewhere

\* the append, were it done for freshly expanded findings only
AppendEntryFreshOnly ==
  /\ pc = "append"
  /\ ap <= Len(new_processed)
  /\ IF cached_results.found
     THEN UNCHANGED <<output, owner>>
     ELSE /\ output' = Append(output, JsonEncodeDict(new_processed[ap]))
          /\ owner' = Append(owner, finding_hash)
  /\ ap' = ap + 1
  /\ UNCHANGED <<input, ckpt, pc, run, idx, finding_hash, cached_results,
                 host_species_list, areas_data, hi, ai, new_processed,
                 llm_response, pass_calls, counters, exc, warned,
                 geo_returned, history>>
  /\ UNCHANGED elsewhere

\* the append, were the output file opened with "w" for each finding
AppendEntryTruncating ==
  /\ pc = "append"
  /\ ap <= Len(new_processed)
  /\ output' = IF ap = 1 THEN <<JsonEncodeDict(new_processed[ap])>>
               ELSE Append(output, JsonEncodeDict(new_processed[ap]))
  /\ owner' = IF ap = 1 THEN <<finding_hash>> ELSE Append(owner, finding_hash)
  /\ ap' = ap + 1
  /\ UNCHANGED <<input, ckpt, pc, run, idx, finding_hash, cached_results,
                 host_species_list, areas_data, hi, ai, new_processed,
                 llm_response, pass_calls, counters, exc, warned,
                 geo_returned, history>>
  /\ UNCHANGED elsewhere

\* Lines 227-229: one entry is written to the output file, opened with "a".
AppendEntry ==
  /\ pc = "append"
  /\ ap <= Len(new_processed)
  /\ output' = Append(output, JsonEncodeDict(new_processed[ap]))
  /\ owner' = Append(owner, finding_hash)
  /\ ap' = ap + 1
  /\ UNCHANGED <<input, ckpt, pc, run, idx, finding_hash, cached_results,
                 host_species_list, areas_data, hi, ai, new_processed,
                 llm_response, pass_calls, counters, exc, warned,
                 geo_returned, history>>
  /\ UNCHANGED elsewhere

\* Lines 231-238 and the loop header: the totals, then the next finding or
\* the end of the script.
FinishFinding ==
  /\ pc = "append"
  /\ ap > Len(new_processed)
  /\ total_entries' = total_entries + Len(new_processed)
  /\ IF idx = Len(input)
     THEN pc' = "done" /\ UNCHANGED idx
     ELSE pc' = "check" /\ idx' = idx + 1
  /\ ClearVolatile
  /\ UNCHANGED <<files, run, cache_hits, cache_misses, exc, history>>
  /\ UNCHANGED elsewhere

\* The process is terminated from outside, wherever it is.
Kill ==
  /\ Running
  /\ pc' = "killed"
  /\ idx' = 0
  /\ cache_hits' = 0
  /\ cache_misses' = 0
  /\ total_entries' = 0
  /\ ClearVolatile
  /\ UNCHANGED <<files, run, exc, history>>
  /\ UNCHANGED elsewhere

Next ==
  \/ StartRun
  \/ CacheCheck
  \/ Decompose
  \/ Geocode
  \/ SaveOpen
  \/ SaveDump
  \/ AppendEntry
  \/ FinishFinding
  \/ Kill

Spec == Init /\ [][Next]_vars

TypeOK ==
  /\ pc \in {"idle", "check", "llm", "geo", "save", "saving", "append",
             "done", "halted", "killed"}
  /\ run \in 0..MaxRuns
  /\ idx \in 0..Len(input)
  /\ Len(owner) = Len(output)

\* ------------------------------------------------------------ vocabulary
DigestOf(i) == get_finding_hash(input[i])
InputDigests == {DigestOf(i) : i \in DOMAIN input}
Saved(d) == ckpt[d].state = "file"
Torn(d) == ckpt[d].state = "partial"
\* the lines of the "processed" list of a saved checkpoint
SavedLines(d) == ckpt[d].text[2][2]
Range(s) == {s[i] : i \in DOMAIN s}
Count(x, s) == Cardinality({i \in DOMAIN s : s[i] = x})
CacheHitPass == pc = "append" /\ cached_results.found
\* the lines the current pass has appended so far
AppendedThisPass == SubSeq(output, Len(output) - (ap - 1) + 1, Len(output))

\* The output of one uninterrupted run over the input: for each line of the
\* input in turn, the processed list of its checkpoint.
RECURSIVE SingleRunOutputUpTo(_)
SingleRunOutputUpTo(k) ==
  IF k = 0 THEN <<>>
  ELSE SingleRunOutputUpTo(k - 1) \o SavedLines(DigestOf(k))
SingleRunOutput == SingleRunOutputUpTo(Len(input))

\* ------------------------------------------- the clock of get_coordinates
\* The process seen from the geocoding service: what matters is when each
\* request of line 96 is sent.  Everything the loop does outside
\* get_coordinates is the position "loop" and takes any time.
RequiredTicks == RateLimitSeconds * TicksPerSecond
ClockCap == RequiredTicks + 1
Saturated(n) == IF n >= ClockCap THEN ClockCap ELSE n

InitClock ==
  /\ input = <<>>
  /\ LoopStart
  /\ ClockStart
  /\ FunctionsIdle
  /\ StagesIdle

\* the script is started
ClockRun ==
  /\ clk_pc = "off"
  /\ clk_runs < MaxRuns
  /\ clk_runs' = clk_runs + 1
  /\ clk_calls' = 0
  /\ clk_pc' = "loop"
  /\ UNCHANGED <<slept, since_sent, last_gap, vars, functions, stages>>

\* Lines 207 and 81-82: get_coordinates is called and goes to sleep.
GeoEnter ==
  /\ clk_pc = "loop"
  /\ clk_calls < MaxCalls
  /\ clk_calls' = clk_calls + 1
  /\ slept' = 0
  /\ clk_pc' = "sleep"
  /\ UNCHANGED <<clk_runs, since_sent, last_gap, vars, functions, stages>>

\* the sleep, were it of half a second
GeoSleepHalfSecond ==
  /\ clk_pc = "sleep"
  /\ 2 * slept >= RequiredTicks
  /\ clk_pc' = "send"
  /\ UNCHANGED <<clk_runs, clk_calls, slept, since_sent, last_gap, vars, functions, stages>>

\* Line 82: time.sleep(1) returns, one second or more after it was called.
GeoSleep ==
  /\ clk_pc = "sleep"
  /\ slept >= RequiredTicks
  /\ clk_pc' = "send"
  /\ UNCHANGED <<clk_runs, clk_calls, slept, since_sent, last_gap, vars, functions, stages>>

\* Line 96: requests.get sends the request.
GeoSend ==
  /\ clk_pc = "send"
  /\ last_gap' = since_sent
  /\ since_sent' = 0
  /\ clk_pc' = "wait"
  /\ UNCHANGED <<clk_runs, clk_calls, slept, vars, functions, stages>>

\* Lines 96-113: the answer, an error or the timeout; get_coordinates returns.
GeoReturn ==
  /\ clk_pc = "wait"
  /\ clk_pc' = "loop"
  /\ UNCHANGED <<clk_runs, clk_calls, slept, since_sent, last_gap, vars, functions, stages>>

\* the loop is over and the script ends
ClockFinish ==
  /\ clk_pc = "loop"
  /\ clk_pc' = "off"
  /\ UNCHANGED <<clk_runs, clk_calls, slept, since_sent, last_gap, vars, functions, stages>>

\* the process is terminated from outside, wherever it is
ClockKill ==
  /\ clk_pc \in {"loop", "sleep", "send", "wait"}
  /\ clk_pc' = "off"
  /\ slept' = 0
  /\ UNCHANGED <<clk_runs, clk_calls, since_sent, last_gap, vars, functions, stages>>

\* one tick of time passes
ClockTick ==
  /\ since_sent' = IF since_sent = -1 THEN -1 ELSE Saturated(since_sent + 1)
  /\ slept' = IF clk_pc = "sleep" THEN Saturated(slept + 1) ELSE slept
  /\ <<since_sent', slept'>> # <<since_sent, slept>>
  /\ UNCHANGED <<clk_pc, clk_runs, clk_calls, last_gap, vars, functions, stages>>

NextClock ==
  \/ ClockRun
  \/ GeoEnter
  \/ GeoSleep
  \/ GeoSend
  \/ GeoReturn
  \/ ClockFinish
  \/ ClockKill
  \/ ClockTick

SpecClock == InitClock /\ [][NextClock]_<<vars, clock, functions, stages>>

\* ------------------------------------------- the functions on their own
\* Strings of up to MaxLen characters: a letter, the two delimiters, a blank.
RECURSIVE StringsUpTo(_)
StringsUpTo(n) ==
  IF n = 0 THEN {<<>>}
  ELSE StringsUpTo(n - 1)
         \cup {Append(t, c) : t \in {u \in StringsUpTo(n - 1) : Len(u) = n - 1},
                               c \in {"A", ",", "/", " "}}

\* get_finding_hash of two findings, or the host list of one host field
FunctionCalls ==
  {[fn |-> "get_finding_hash", a |-> x, b |-> y, text |-> JNull] :
     x \in HashArguments, y \in HashArguments}
    \cup {[fn |-> "split_species", a |-> <<>>, b |-> <<>>, text |-> JStr(t)] :
             t \in StringsUpTo(MaxLen)}

InitFunctions ==
  /\ input = <<>>
  /\ LoopStart
  /\ ClockStart
  /\ fn_call \in FunctionCalls
  /\ fn_ret = NotReturned
  /\ StagesIdle

\* lines 37-41, called for one finding and then for another
CallGetFindingHash ==
  /\ fn_call.fn = "get_finding_hash"
  /\ fn_ret = NotReturned
  /\ fn_ret' = [NotReturned EXCEPT
                  !.returned = TRUE,
                  !.digests = <<get_finding_hash(fn_call.a), get_finding_hash(fn_call.b)>>]
  /\ UNCHANGED <<fn_call, vars, clock, stages>>

\* lines 115-121 and 192-194
CallSplitSpecies ==
  /\ fn_call.fn = "split_species"
  /\ fn_ret = NotReturned
  /\ fn_ret' = [NotReturned EXCEPT
                  !.returned = TRUE,
                  !.pieces = split_species(fn_call.text),
                  !.hosts = HostList(fn_call.text)]
  /\ UNCHANGED <<fn_call, vars, clock, stages>>

NextFunctions ==
  \/ CallGetFindingHash
  \/ CallSplitSpecies

SpecFunctions == InitFunctions /\ [][NextFunctions]_<<vars, clock, functions, stages>>

\* ------------------------------------------------- the upstream stages
\* zai_batch_treatment.py (input/*.pdf to output/*.md, usage log
\* output/token_usage.csv) and zai_llm_extraction.py (output/*.md to
\* output/*.json, usage log output/llm_token_usage.csv).  A file is a number;
\* st_out[f] is the state of the output file of input file f.
InitStages ==
  /\ input = <<>>
  /\ LoopStart
  /\ ClockStart
  /\ FunctionsIdle
  /\ stage \in {"ocr", "llm"}
  /\ st_large \in SUBSET Papers
  /\ stage = "llm" => st_large = {}
  /\ StagesStart

others == <<vars, clock, functions>>

\* zai_batch_treatment.py lines 11-17, zai_llm_extraction.py lines 42-49:
\* the script is started, reads the usage log and lists the directory.
StageRun ==
  /\ st_pc = "off"
  /\ st_runs < MaxRuns
  /\ st_runs' = st_runs + 1
  /\ st_processed' = st_log
  /\ st_todo' = Papers
  /\ st_cur' = 0
  /\ st_pc' = "next"
  /\ UNCHANGED <<stage, st_large, st_log, st_out, others>>

\* zai_batch_treatment.py lines 17-33, zai_llm_extraction.py lines 49-55:
\* the next file of the listing; one the usage log names is skipped, and so
\* is a PDF over the limits.
StageNext ==
  /\ st_pc = "next"
  /\ \E filename \in st_todo :
       /\ st_todo' = st_todo \ {filename}
       /\ IF filename \in st_processed \/ filename \in st_large
          THEN UNCHANGED <<st_pc, st_cur>>
          ELSE st_pc' = "call" /\ st_cur' = filename
  /\ UNCHANGED <<stage, st_runs, st_large, st_processed, st_log, st_out, others>>

\* the listing is exhausted and the script ends
StageEnd ==
  /\ st_pc = "next"
  /\ st_todo = {}
  /\ st_pc' = "off"
  /\ st_cur' = 0
  /\ UNCHANGED <<stage, st_runs, st_large, st_processed, st_todo, st_log,
                 st_out, others>>

\* zai_batch_treatment.py line 39: the OCR call; an exception is not caught.
OcrCall ==
  /\ stage = "ocr"
  /\ st_pc = "call"
  /\ \E raised \in BOOLEAN :
       IF raised THEN st_pc' = "off" /\ st_cur' = 0 /\ st_todo' = {}
       ELSE st_pc' = "log" /\ UNCHANGED <<st_cur, st_todo>>
  /\ UNCHANGED <<stage, st_runs, st_large, st_processed, st_log, st_out, others>>

\* zai_batch_treatment.py lines 41-42: the line of the usage log is written.
OcrLog ==
  /\ stage = "ocr"
  /\ st_pc = "log"
  /\ st_log' = st_log \cup {st_cur}
  /\ st_pc' = "open"
  /\ UNCHANGED <<stage, st_runs, st_large, st_processed, st_todo, st_cur,
                 st_out, others>>

\* zai_batch_treatment.py line 46: the .md file is opened with "w".
OcrOpen ==
  /\ stage = "ocr"
  /\ st_pc = "open"
  /\ st_out' = [st_out EXCEPT ![st_cur] = "partial"]
  /\ st_pc' = "write"
  /\ UNCHANGED <<stage, st_runs, st_large, st_processed, st_todo, st_cur,
                 st_log, others>>

\* zai_batch_treatment.py line 47: the text is written and the file closed.
OcrWrite ==
  /\ stage = "ocr"
  /\ st_pc = "write"
  /\ st_out' = [st_out EXCEPT ![st_cur] = "written"]
  /\ st_pc' = "next"
  /\ UNCHANGED <<stage, st_runs, st_large, st_processed, st_todo, st_cur,
                 st_log, others>>

\* zai_llm_extraction.py lines 66-79: the extraction call; an exception is
\* written to llm_errors.txt and the loop goes on.
LlmCall ==
  /\ stage = "llm"
  /\ st_pc = "call"
  /\ \E raised \in BOOLEAN :
       st_pc' = IF raised THEN "next" ELSE "open"
  /\ UNCHANGED <<stage, st_runs, st_large, st_processed, st_todo, st_cur,
                 st_log, st_out, others>>

\* zai_llm_extraction.py line 88: the .json file is opened with "w".
LlmOpen ==
  /\ stage = "llm"
  /\ st_pc = "open"
  /\ st_out' = [st_out EXCEPT ![st_cur] = "partial"]
  /\ st_pc' = "write"
  /\ UNCHANGED <<stage, st_runs, st_large, st_processed, st_todo, st_cur,
                 st_log, others>>

\* zai_llm_extraction.py line 89: the text is written and the file closed.
LlmWrite ==
  /\ stage = "llm"
  /\ st_pc = "write"
  /\ st_out' = [st_out EXCEPT ![st_cur] = "written"]
  /\ st_pc' = "log"
  /\ UNCHANGED <<stage, st_runs, st_large, st_processed, st_todo, st_cur,
                 st_log, others>>

\* zai_llm_extraction.py lines 92-99: the row of the usage log is written.
LlmLog ==
  /\ stage = "llm"
  /\ st_pc = "log"
  /\ st_log' = st_log \cup {st_cur}
  /\ st_pc' = "next"
  /\ UNCHANGED <<stage, st_runs, st_large, st_processed, st_todo, st_cur,
                 st_out, others>>

\* the process is terminated from outside, wherever it is
StageKill ==
  /\ st_pc # "off"
  /\ st_pc' = "off"
  /\ st_cur' = 0
  /\ st_todo' = {}
  /\ UNCHANGED <<stage, st_runs, st_large, st_processed, st_log, st_out, others>>

NextStages ==
  \/ StageRun
  \/ StageNext
  \/ StageEnd
  \/ OcrCall
  \/ OcrLog
  \/ OcrOpen
  \/ OcrWrite
  \/ LlmCall
  \/ LlmOpen
  \/ LlmWrite
  \/ LlmLog
  \/ StageKill

SpecStages == InitStages /\ [][NextStages]_<<others, stages>>

\* ------------------------------------------------------------------ claims

\* C1: a finding whose checkpoint was saved by an earlier pass, met again,
\* contributes the very list that was in memory when the checkpoint was saved
\* (it survives the JSON round trip through the checkpoint file), the lines it
\* appends are the lines of that list, and the pass calls neither the
\* decomposition service nor the geocoding service.
C1_Idempotence ==
  CacheHitPass =>
    /\ new_processed = produced[finding_hash]
    /\ AppendedThisPass = JsonEncodeList(SubSeq(produced[finding_hash], 1, ap - 1))
    /\ pass_calls = NoCalls

\* a cached pass has appended its whole list, two entries or more, one of
\* them with float coordinates read back from the checkpoint file
C1_Witness ==
  /\ CacheHitPass
  /\ ap > Len(new_processed)
  /\ Len(new_processed) >= 2
  /\ \E i \in DOMAIN new_processed : Get(new_processed[i], "latitude").t = "float"
  /\ \E i \in DOMAIN new_processed : Get(new_processed[i], "latitude").t = "null"

\* C2: no external call is ever made by a run for a finding whose checkpoint
\* was loadable when the run started, and a run that reaches its end has made
\* exactly one decomposition call, and the geocoding calls of the expansion,
\* for every distinct finding of the input that had no loadable checkpoint.
C2_RestartCalls ==
  /\ \A d \in saved_at_start : run_llm[d] = 0 /\ run_geo[d] = 0
  /\ pc = "done" =>
       \A d \in InputDigests \ saved_at_start :
         /\ run_llm[d] = 1
         /\ Saved(d)
         /\ run_geo[d] = Len(SavedLines(d))

\* a run killed after one checkpoint of two; the next run has finished and
\* has called the services for the other finding only
C2_Witness ==
  /\ run = 2
  /\ prev_end = "killed"
  /\ pc = "done"
  /\ Cardinality(saved_at_start) = 1
  /\ Cardinality(InputDigests) = 2
  /\ \E d \in InputDigests \ saved_at_start : run_geo[d] >= 1

\* C3 as stated: after a terminated run and a fresh run to completion, the
\* output file holds the same lines, with the same multiplicities, as one
\* uninterrupted run would have written.
C3_CumulativeEqualsSingleRun ==
  (pc = "done" /\ run = 2 /\ prev_end = "killed") =>
    \A x \in Range(output) \cup Range(SingleRunOutput) :
      Count(x, output) = Count(x, SingleRunOutput)

\* C3 amended: when a run reaches its end, the output file holds the same
\* distinct lines as one uninterrupted run would have written, each at least
\* as often (the lines earlier runs appended are appended again); the first
\* run, uninterrupted, writes exactly that output.
C3_CumulativeSameLines ==
  pc = "done" =>
    /\ Range(output) = Range(SingleRunOutput)
    /\ \A x \in Range(output) : Count(x, output) >= Count(x, SingleRunOutput)
    /\ run = 1 => output = SingleRunOutput

\* a terminated run had appended lines, the fresh run has finished, and the
\* file is longer than the output of one run
C3_Witness ==
  /\ pc = "done"
  /\ run = 2
  /\ prev_end = "killed"
  /\ Len(SingleRunOutput) >= 2
  /\ Len(output) > Len(SingleRunOutput)

\* C4: every line of the output file belongs to a finding whose checkpoint is
\* saved, and a pass that expanded a finding appends only once the checkpoint
\* file holds the finding and the list being appended.
C4_CheckpointBeforeAppend ==
  /\ \A i \in DOMAIN owner : Saved(owner[i])
  /\ (pc = "append" /\ ~cached_results.found) =>
       ckpt[finding_hash] = CheckpointFile(input[idx], new_processed)

\* the process was terminated in its first run after appending the lines of
\* a freshly expanded finding
C4_Witness ==
  /\ pc = "killed"
  /\ run = 1
  /\ output # <<>>

\* C5 as stated: whatever the decomposition service does, the list of
\* fragments is not empty, and no checkpoint holds an empty processed list.
C5_DecomposerNonEmpty ==
  /\ llm_response.kind # "none" => areas_data # <<>>
  /\ \A d \in AllDigests : Saved(d) => SavedLines(d) # <<>>

\* C6 as stated: no answer of an external service ends the run with an
\* unhandled exception.
C6_NeverHaltedByResponse ==
  ~(pc = "halted" /\ exc = "KeyError:area_data")

\* C7: when the decomposition call raised, or its answer held no array, or
\* the array text did not parse, the list of fragments is the one fragment
\* made of the finding's own country and area, and every entry built from it
\* carries them.
C7_FallbackValue ==
  llm_response.kind \in {"raise", "noarray", "badjson"} =>
    /\ areas_data =
         << << <<"country", Get(input[idx], "country")>>,
               <<"area", Get(input[idx], "area")>> >> >>
    /\ \A i \in DOMAIN new_processed :
         /\ Get(new_processed[i], "country") = Get(input[idx], "country")
         /\ Get(new_processed[i], "area") = Get(input[idx], "area")

\* the answer did not parse and the two hosts of the finding have each been
\* paired with the fallback fragment
C7_Witness ==
  /\ pc = "save"
  /\ llm_response.kind = "badjson"
  /\ Len(new_processed) = 2

\* C8: once the expansion of a finding is over, its processed list has one
\* entry per (host, fragment) pair, hosts outermost, each with its pair's
\* host and its pair's fragment, and one geocoding call was made per pair
\* after one decomposition call.
C8_CrossProduct ==
  (pc \in {"save", "saving"} \/ (pc = "append" /\ ~cached_results.found)) =>
    LET hosts == split_species(Get(input[idx], "host_species"))
        h == IF hosts = <<>> THEN 1 ELSE Len(hosts)
        f == Len(areas_data)
    IN /\ Len(host_species_list) = h
       /\ Len(new_processed) = h * f
       /\ pass_calls = [llm |-> 1, geo |-> h * f]
       /\ \A i \in 1..h, j \in 1..f :
            LET entry == new_processed[(i - 1) * f + j]
            IN /\ Get(entry, "host_species") = host_species_list[i]
               /\ Get(entry, "country") = Get(areas_data[j], "country")
               /\ Get(entry, "area") = Get(areas_data[j], "area")

\* two hosts, two fragments, four entries
C8_Witness ==
  /\ pc = "save"
  /\ Len(host_species_list) = 2
  /\ Len(areas_data) = 2
  /\ Len(new_processed) = 4

\* C9 as stated: over all runs, the decomposition service is called at most
\* once for each distinct finding.
C9_AtMostOnce == \A d \in AllDigests : llm_calls[d] <= 1

\* the lines of the input with the field values of the finding in hand have
\* its digest
SameValueSameCheckpoint ==
  Running =>
    \A j \in DOMAIN input :
      Range(input[j]) = Range(input[idx]) => DigestOf(j) = DigestOf(idx)

\* C9 amended: findings with the same field values have the same digest, so
\* one checkpoint; a checkpoint is saved at most once per digest, and no
\* external call is ever made for a digest whose checkpoint is saved.  (An
\* expansion cut short before its checkpoint is saved is done again.)
C9_AtMostOnceSaved ==
  /\ SameValueSameCheckpoint
  /\ \A d \in AllDigests : saves[d] <= 1 /\ late_calls[d] = 0

\* the second of two lines with the same field values, in another key order,
\* is served from the checkpoint of the first
C9_Witness ==
  /\ CacheHitPass
  /\ idx = 2
  /\ input[1] # input[2]
  /\ DigestOf(1) = DigestOf(2)
  /\ llm_calls[finding_hash] = 1
  /\ run = 1

\* C10: in every state, a termination point or not, a checkpoint that was
\* once saved is still saved and loads to the list that was saved; the
\* findings before the current one all have a saved checkpoint; and at most
\* one checkpoint file, that of the finding whose save was cut short, is
\* unreadable.
C10_CrashContainment ==
  /\ \A d \in AllDigests :
       /\ Saved(d) <=> saves[d] = 1
       /\ Saved(d) => LET loaded == load_checkpoint(ckpt, d)
                      IN loaded.found /\ loaded.processed = produced[d]
  /\ \A k \in 1..(idx - 1) : Saved(DigestOf(k))
  /\ Cardinality({d \in AllDigests : Torn(d)}) <= 1
  /\ pc = "saving" => Torn(finding_hash)

\* the process was terminated while writing the checkpoint of the second
\* finding: the first one is saved, the second one torn
C10_Witness ==
  /\ pc = "killed"
  /\ Saved(DigestOf(1))
  /\ Len(input) >= 2
  /\ Torn(DigestOf(2))

\* C11: when the checkpoint file of the finding in hand exists and json.load
\* rejects it (load_checkpoint prints its warning), the load returns nothing,
\* the finding is expanded as on a cache miss with one decomposition call,
\* its checkpoint is written again before anything is appended, and the run
\* is not halted by the unreadable file (a halt of such a pass is the one an
\* answer of the decomposition service causes).
C11_CorruptCheckpointRecovery ==
  warned =>
    /\ ~cached_results.found
    /\ pc \in {"llm", "geo", "save", "saving", "append", "halted"}
    /\ pc = "halted" => exc = "KeyError:area_data"
    /\ pc \in {"geo", "save", "saving", "append"} => pass_calls.llm = 1
    /\ pc = "append" =>
         /\ ckpt[finding_hash] = CheckpointFile(input[idx], new_processed)
         /\ load_checkpoint(ckpt, finding_hash).processed = new_processed

\* a run killed in the middle of save_checkpoint left an unreadable file; the
\* next run has expanded the finding again, saved it, appended its entries,
\* and is about to go on with the second finding
C11_Witness ==
  /\ warned
  /\ run = 2
  /\ pc = "append"
  /\ idx = 1
  /\ Len(input) = 2
  /\ Len(new_processed) >= 2
  /\ ap > Len(new_processed)

\* the findings of the input that lack a required field
Malformed == {i \in DOMAIN input : MissingKey(input[i], RequiredKeys)}

\* C12: the loop never gets past a finding that lacks a required field: no
\* run is beyond it or finishes; no decomposition or geocoding call is ever
\* made for it, no checkpoint file is created for it and no output line is
\* of it; and when the run has stopped at it with the unhandled KeyError, no
\* call was made in the pass, every earlier finding has its checkpoint as it
\* was saved, and the output ends with the entries of the earlier findings.
C12_MalformedInputHalts ==
  /\ \A i \in Malformed :
       /\ idx <= i
       /\ pc # "done"
       /\ (Running /\ idx = i) => pc = "check"
       /\ llm_calls[DigestOf(i)] = 0
       /\ run_geo[DigestOf(i)] = 0
       /\ ckpt[DigestOf(i)] = NoFile
       /\ \A n \in DOMAIN owner : owner[n] # DigestOf(i)
       /\ \A k \in DOMAIN input :
            k > i => /\ run_llm[DigestOf(k)] = 0
                     /\ ckpt[DigestOf(k)] = NoFile
  /\ (pc = "halted" /\ exc = "KeyError:finding") =>
       /\ idx \in Malformed
       /\ pass_calls = NoCalls
       /\ new_processed = <<>>
       /\ \A k \in 1..(idx - 1) :
            /\ Saved(DigestOf(k))
            /\ load_checkpoint(ckpt, DigestOf(k)).processed = produced[DigestOf(k)]
       /\ LET earlier == SingleRunOutputUpTo(idx - 1)
          IN SubSeq(output, Len(output) - Len(earlier) + 1, Len(output)) = earlier

\* the run has stopped at the second finding, which has no "area"; the first
\* one was expanded, saved and appended
C12_Witness ==
  /\ pc = "halted"
  /\ exc = "KeyError:finding"
  /\ idx = 2
  /\ run = 1
  /\ Len(output) >= 2

\* C13: every step of every run, the start of a new run after a termination
\* included, leaves the lines the output file had as the first lines of the
\* file; the file changes only by the append of the next entry of the list
\* of the finding in hand; and when a finding, cached or fresh, is finished,
\* the last lines of the file are the entries of its list, all of them.
C13_OutputAppendOnly ==
  [][ /\ Len(output') >= Len(output)
      /\ SubSeq(output', 1, Len(output)) = output
      /\ output' # output =>
           /\ pc = "append"
           /\ ap <= Len(new_processed)
           /\ output' = Append(output, JsonEncodeDict(new_processed[ap]))
           /\ ap' = ap + 1
      /\ (pc = "append" /\ pc' \in {"check", "done"}) =>
           /\ ap = Len(new_processed) + 1
           /\ SubSeq(output, Len(output) - Len(new_processed) + 1, Len(output))
                = JsonEncodeList(new_processed) ]_vars

\* a second run, after a termination, has appended the cached entries of a
\* finding behind the lines the file already had
C13_Witness ==
  /\ run = 2
  /\ prev_end = "killed"
  /\ CacheHitPass
  /\ ap = Len(new_processed) + 1
  /\ Len(new_processed) >= 2
  /\ Len(output) > Len(new_processed)

\* C14: whenever a geocoding request is sent, by the process that sent the
\* one before or by a later process, at least one second has passed since
\* the request before it was sent.
C14_GeocodingRateLimit ==
  /\ last_gap = -1 \/ last_gap >= RequiredTicks
  /\ clk_pc = "send" => (since_sent = -1 \/ since_sent >= RequiredTicks)

\* the first request of a second process was sent exactly one second after
\* the last request of the process before it, which was killed while waiting
\* for the answer
C14_Witness ==
  /\ clk_runs = 2
  /\ clk_calls = 1
  /\ clk_pc = "wait"
  /\ last_gap = RequiredTicks

\* the expansion of the finding in hand is under way or over
Expanding ==
  pc \in {"geo", "save", "saving"} \/ (pc = "append" /\ ~cached_results.found)

\* C15: a geocoding call that fails (the request raises, the status is an
\* error, the result list is empty, a coordinate is no number) returns null
\* coordinates and a call that succeeds returns the floats of its answer;
\* during and after the expansion of a finding each entry carries what the
\* call of its own pair returned, whatever the calls of the other pairs
\* did, and a finished expansion has one entry per pair, failed or not.
C15_GeocodingFailureIsolation ==
  /\ \A r \in GeoResponses :
       IF r.kind = "results" /\ FloatParses(r.lat) /\ FloatParses(r.lon)
       THEN get_coordinates(r) =
              << <<"latitude", JFloat(r.lat[2])>>, <<"longitude", JFloat(r.lon[2])>> >>
       ELSE get_coordinates(r) = NullCoordinates
  /\ Expanding =>
       /\ Len(new_processed) = Len(geo_returned)
       /\ \A i \in DOMAIN new_processed :
            /\ geo_returned[i] \in {get_coordinates(r) : r \in GeoResponses}
            /\ Get(new_processed[i], "latitude") = Get(geo_returned[i], "latitude")
            /\ Get(new_processed[i], "longitude") = Get(geo_returned[i], "longitude")
  /\ (Expanding /\ pc # "geo") =>
       Len(new_processed) = Len(host_species_list) * Len(areas_data)

\* four pairs: the calls of the first and the last failed, the two between
\* them succeeded, and there are four entries
C15_Witness ==
  /\ pc = "save"
  /\ Len(new_processed) = 4
  /\ Get(new_processed[1], "latitude") = JNull
  /\ Get(new_processed[2], "latitude") = JFloat(1)
  /\ Get(new_processed[3], "longitude") = JFloat(2)
  /\ Get(new_processed[4], "longitude") = JNull

\* C16: two findings with the same field names and values have the same
\* digest, whatever the order of their keys; the digest is computed from the
\* finding alone (the loop passes nothing else, neither its index nor the
\* run).
C16_DigestOfFieldValuesOnly ==
  (fn_call.fn = "get_finding_hash" /\ fn_ret.returned) =>
    /\ Range(fn_call.a) = Range(fn_call.b) => fn_ret.digests[1] = fn_ret.digests[2]
    /\ fn_ret.digests[1] = md5(SortedItems(fn_call.a, 1))
    /\ SortedItems(fn_call.a, 1) = SortedItems(Reordered(fn_call.a, KeyOrder), 1)
    /\ SortedItems(fn_call.a, 1) = JsonEncodeDict(Reordered(fn_call.a, KeyOrder))

\* the digests of two findings with the same values, their keys in different
\* orders, have been computed
C16_Witness ==
  /\ fn_call.fn = "get_finding_hash"
  /\ fn_ret.returned
  /\ fn_call.a # fn_call.b
  /\ fn_call.a[1][1] # fn_call.b[1][1]
  /\ Range(fn_call.a) = Range(fn_call.b)
  /\ Get(fn_call.a, "document_id") = JInt(7)

\* the checkpoint files a step writes to
Written == {d \in AllDigests : ckpt'[d] # ckpt[d]}

\* C17: in every state the "original" of a saved checkpoint is a finding of
\* the input as it was read, and its digest is the key of the checkpoint; and
\* every step leaves the input, every saved checkpoint and the lines of the
\* output as they are: a step that writes a checkpoint file writes the one
\* file named by the digest of the finding in hand, which held no checkpoint.
C17_NoInPlaceUpdate ==
  /\ [](\A d \in AllDigests :
          Saved(d) =>
            LET original == load_checkpoint(ckpt, d).original
            IN /\ get_finding_hash(original) = d
               /\ \E i \in DOMAIN input : input[i] = original)
  /\ [][ /\ input' = input
         /\ SubSeq(output', 1, Len(output)) = output
         /\ \A d \in AllDigests : Saved(d) => ckpt'[d] = ckpt[d]
         /\ Written # {} =>
              /\ Written = {finding_hash}
              /\ finding_hash = get_finding_hash(input[idx])
              /\ pc \in {"save", "saving"} ]_vars

\* two findings that differ in the host field only: the second has been
\* expanded and saved under its own key, next to the checkpoint of the first
C17_Witness ==
  /\ pc = "append"
  /\ ~cached_results.found
  /\ idx = 2
  /\ Get(input[1], "document_id") = Get(input[2], "document_id")
  /\ Get(input[1], "host_species") # Get(input[2], "host_species")
  /\ Saved(DigestOf(1))
  /\ Saved(DigestOf(2))
  /\ DigestOf(1) # DigestOf(2)
  /\ output # <<>>

\* characters that are neither a delimiter nor a blank, in order
Letters(s) == SelectSeq(s, LAMBDA c : ~IsDelim(c) /\ ~IsSpace(c))
RECURSIVE LettersOfAll(_)
LettersOfAll(pieces) ==
  IF pieces = <<>> THEN <<>>
  ELSE Letters(pieces[1].v) \o LettersOfAll(Tail(pieces))
\* the positions of a string that hold the first letter after a delimiter,
\* or after the start: one for each piece that is not blank
PieceStarts(s) ==
  {i \in DOMAIN s :
     /\ Letters(<<s[i]>>) # <<>>
     /\ \A j \in 1..(i - 1) :
          (\A k \in j..(i - 1) : ~IsDelim(s[k])) => Letters(<<s[j]>>) = <<>>}

\* C18: for every host field the list the loop iterates over is not empty:
\* it is the list of the pieces between commas and slashes, trimmed, the
\* blank ones left out (each piece a part of the field without delimiter and
\* without blank at either end, one piece for each part that is not blank,
\* all letters kept in order), and when there is no such piece it is the
\* list of one element, the field itself.
C18_HostListNeverEmpty ==
  (fn_call.fn = "split_species" /\ fn_ret.returned) =>
    LET text == fn_call.text.v
        pieces == fn_ret.pieces
    IN /\ fn_ret.hosts # <<>>
       /\ fn_ret.hosts = IF pieces = <<>> THEN <<fn_call.text>> ELSE pieces
       /\ Len(pieces) = Cardinality(PieceStarts(text))
       /\ LettersOfAll(pieces) = Letters(text)
       /\ \A n \in DOMAIN pieces :
            LET piece == pieces[n].v
            IN /\ pieces[n].t = "str"
               /\ piece # <<>>
               /\ ~IsSpace(piece[1]) /\ ~IsSpace(piece[Len(piece)])
               /\ \A k \in DOMAIN piece : ~IsDelim(piece[k])
               /\ \E i \in DOMAIN text :
                    i + Len(piece) - 1 <= Len(text)
                      /\ SubSeq(text, i, i + Len(piece) - 1) = piece

\* a field of blanks and a delimiter: no piece, and the list is the field
C18_Witness ==
  /\ fn_call.fn = "split_species"
  /\ fn_call.text = JStr(<<" ", "/", " ">>)
  /\ fn_ret.returned
  /\ fn_ret.pieces = <<>>
  /\ fn_ret.hosts = <<JStr(<<" ", "/", " ">>)>>

\* C19: during and after the expansion of a finding, the entry built for
\* the pair (host number h, fragment number f) has the eight fields of an
\* entry, the document_id, parasite_species and confidence_score of the
\* finding, the host of its pair, and the country and the area of the
\* fragment of its pair.
C19_FieldProvenance ==
  Expanding =>
    \A i \in DOMAIN new_processed :
      LET entry == new_processed[i]
          h == ((i - 1) \div Len(areas_data)) + 1
          f == ((i - 1) % Len(areas_data)) + 1
      IN /\ [k \in DOMAIN entry |-> entry[k][1]] =
              <<"document_id", "parasite_species", "host_species", "country",
                "area", "latitude", "longitude", "confidence_score">>
         /\ Get(entry, "document_id") = Get(input[idx], "document_id")
         /\ Get(entry, "parasite_species") = Get(input[idx], "parasite_species")
         /\ Get(entry, "confidence_score") = Get(input[idx], "confidence_score")
         /\ Get(entry, "host_species") = HostList(Get(input[idx], "host_species"))[h]
         /\ Get(entry, "country") = Get(areas_data[f], "country")
         /\ Get(entry, "area") = Get(areas_data[f], "area")

\* two hosts and two fragments, the second fragment in another country than
\* the finding: the entries of the second fragment carry that country
C19_Witness ==
  /\ pc = "save"
  /\ Len(new_processed) = 4
  /\ Get(input[idx], "country") = JStr(<<"F">>)
  /\ Get(new_processed[2], "country") = JStr(<<"G">>)
  /\ Get(new_processed[4], "country") = JStr(<<"G">>)
  /\ Get(new_processed[3], "host_species") = JStr(<<"B">>)
  /\ Get(new_processed[4], "document_id") = JInt(7)

\* C20 as stated: in both stages, whenever no process is running (a later
\* run would skip the files the usage log names), every file named in the
\* usage log of the stage has its output file completely written.
C20_LoggedHasOutput ==
  st_pc = "off" => \A f \in st_log : st_out[f] = "written"

====
